---- MODULE Spec2Model ----
(***************************************************************************)
(* The Coverflow widget of src/src/Coverflow.tsx as a state machine: the   *)
(* viewport's scrollLeft, the requestAnimationFrame queue, the drag        *)
(* session (dragRef), the clock, and the host's onItemClick callback.      *)
(* One action per event handler, effect or frame callback.                 *)
(***************************************************************************)
EXTENDS Integers, Sequences, FiniteSets, TLC

(***************************************************************************)
(* Numbers.  JavaScript numbers are modelled as exact rationals <<n, d>>   *)
(* with d > 0 in lowest terms.                                             *)
(***************************************************************************)
RECURSIVE GCD(_, _)
GCD(a, b) == IF b = 0 THEN a ELSE GCD(b, a % b)

AbsInt(a) == IF a < 0 THEN -a ELSE a

Q(n, d) ==
    LET s == IF d < 0 THEN -1 ELSE 1
        g == GCD(AbsInt(n), AbsInt(d))
    IN  <<(s * n) \div g, (s * d) \div g>>

N(i) == <<i, 1>>

Plus(x, y) ==
    LET g == GCD(x[2], y[2])
    IN  Q(x[1] * (y[2] \div g) + y[1] * (x[2] \div g), x[2] * (y[2] \div g))

Minus(x, y) == Plus(x, <<-y[1], y[2]>>)

Times(x, y) ==
    LET g1 == GCD(AbsInt(x[1]), y[2])
        g2 == GCD(AbsInt(y[1]), x[2])
    IN  Q((x[1] \div g1) * (y[1] \div g2), (x[2] \div g2) * (y[2] \div g1))

Over(x, y) == Times(x, <<y[2], y[1]>>)

Lt(x, y) == Minus(x, y)[1] < 0

Le(x, y) == Minus(x, y)[1] <= 0

MathAbs(x) == <<AbsInt(x[1]), x[2]>>

MathMin(x, y) == IF Lt(y, x) THEN y ELSE x

MathMax(x, y) == IF Lt(x, y) THEN y ELSE x

MathFloor(x) == x[1] \div x[2]

\* Math.round: the nearest integer, a tie going towards +Infinity.
MathRound(x) ==
    LET q == x[1] \div x[2]
        r == x[1] - q * x[2]
    IN  IF 2 * r >= x[2] THEN q + 1 ELSE q

(***************************************************************************)
(* Constants of the program.                                               *)
(***************************************************************************)
DRAG_THRESHOLD == 10

MOMENTUM_MULTIPLIER == 200

\* props defaults: imgWidth = 200, overlapFactor = 0.8
imgWidth == 200

overlapFactor == <<4, 5>>

\* selectCard's fixed duration and smoothScrollTo's default
SELECT_DURATION == 600

SNAP_DURATION == 500

MOMENTUM_MIN_DURATION == 800

MOMENTUM_MAX_DURATION == 1500

\* duration = distance * 1.5
DURATION_PER_DISTANCE == <<3, 2>>

\* Math.abs(velocity) > 0.1
VELOCITY_THRESHOLD == <<1, 10>>

\* the sampling interval of onPointerMove: dt > 10
SAMPLE_INTERVAL == 10

\* const buffer = imgWidth * 3
BUFFER_ITEMS == 3

scrollStep == Times(N(imgWidth), overlapFactor)

easeInQuad(t) == Times(t, t)

easeOutCubic(t) ==
    LET u == Minus(N(1), t)
    IN  Minus(N(1), Times(u, Times(u, u)))

Ease(easingFn, t) ==
    IF easingFn = "easeInQuad" THEN easeInQuad(t) ELSE easeOutCubic(t)

(***************************************************************************)
(* Bounds of the model.                                                    *)
(***************************************************************************)
MaxItems == 3

MaxCalls == 2

\* pointer-down events (gestures) in a run
MaxGestures == 1

\* the longest time the clock runs past the oldest time stamp still in use
MaxNow == 800

\* the longest time between pointer-down or a velocity sample and the next tick
MaxSampleAge == 20

\* the clock advances by one of these between the events of a drag session
\* (while no animation is in flight)
DragDts == {10, 20}

\* and by one of these, the frame period, while an animation is in flight;
\* a frame callback runs a whole number of periods after its start, or
\* after its end
FrameDts == {400}

\* pageX of pointer-down, and of the pointer-moves
DownXs == {400}

MoveXs == {400, 410, 420}

\* and of a pointer-move far to the left, which scrolls into the buffer
FarMoveXs == {160}

Keys == {"ArrowLeft", "ArrowRight", "Enter"}

\* props.imgWidth and props.overlapFactor a host may pass; their product is
\* the step
ImgWidths == {100, 150, 200}

OverlapFactors == {<<1, 2>>, <<3, 4>>, <<4, 5>>, <<1, 1>>}

\* the error of rounding index * scrollStep to a double
FloatErrs == {<<-1, 1000000>>, <<0, 1>>, <<1, 1000000>>}

\* the offsets of the viewport the mapper is applied to are the multiples of
\* this
OffsetGrain == 40

\* the time between the last velocity sample and the release
SampleAges == {0, 10, 20, 1000}

\* dragRef.velocity at the release of a drag: dx / dt of the last sample
Velocities ==
    {<<-10, 1>>, <<-3, 1>>, <<-1, 1>>, <<-1, 5>>, <<-1, 10>>, <<0, 1>>,
     <<1, 10>>, <<1, 5>>, <<1, 1>>, <<3, 1>>, <<10, 1>>}


(***************************************************************************)
(* State.                                                                  *)
(***************************************************************************)
VARIABLES
    phase,          \* "init" (constructed), "mounted", "unmounted"
    itemCount,      \* props.items.length; items[i] is identified with i
    initCenter,     \* props.initCenter
    containerRef,   \* TRUE iff containerRef.current is the viewport element
    scrollLeft,     \* the viewport element's scrollLeft
    scrollRafRef,   \* scrollRafRef.current
    rafQueue,       \* the frame callbacks registered and not yet run or cancelled
    dragRef,        \* dragRef.current
    now,            \* performance.now()
    callCount,      \* how many times onItemClick has been invoked
    lastItem,       \* the argument of the latest onItemClick
    gestures,       \* how many pointer-down events the viewport has received
    peakDx,         \* history: the largest |pageX - startX| of the pointer-moves
                    \* of the current (or latest) drag session
    ev              \* the latest event whose handler did anything, and what it did

vars ==
    <<phase, itemCount, initCenter, containerRef, scrollLeft, scrollRafRef,
      rafQueue, dragRef, now, callCount, lastItem, gestures, peakDx, ev>>

\* scrollRafRef.current = null (a frame handle is a positive integer)
NULL == 0

\* items[index]: the item, or undefined outside 0 .. items.length-1
UNDEFINED == [defined |-> FALSE, index |-> 0]

ItemAt(n, index) ==
    IF index \in 0 .. n - 1 THEN [defined |-> TRUE, index |-> index] ELSE UNDEFINED

\* one entry of the record of what a handler did
Did(op, item, x, duration, easingFn) ==
    [op |-> op, item |-> item, x |-> x, duration |-> duration, easingFn |-> easingFn]

\* the program state a handler runs on, its record of effects empty
St ==
    [itemCount |-> itemCount, initCenter |-> initCenter,
     containerRef |-> containerRef, scrollLeft |-> scrollLeft,
     scrollRafRef |-> scrollRafRef, rafQueue |-> rafQueue, dragRef |-> dragRef,
     now |-> now, callCount |-> callCount, lastItem |-> lastItem, trace |-> <<>>]

(***************************************************************************)
(* The viewport (host layout).  The effect sizes the content to            *)
(* items.length * itemStep + buffer and pads it on the left by             *)
(* 50% - imgWidth / 2; the element clamps scrollLeft to                    *)
(* [0, scrollWidth - clientWidth].                                         *)
(***************************************************************************)
clientWidth == 3 * imgWidth

contentWidth(n) ==
    LET itemStep == Times(N(imgWidth), overlapFactor)
        totalWidth == Times(N(n), itemStep)
        buffer == N(imgWidth * BUFFER_ITEMS)
    IN  Plus(totalWidth, buffer)

centerPad == Minus(Q(clientWidth, 2), Q(imgWidth, 2))

maxScrollLeft(n) ==
    MathMax(N(0), Minus(Plus(centerPad, contentWidth(n)), N(clientWidth)))

\* element.scrollLeft = v
setScrollLeft(s, v) ==
    LET w == MathMax(N(0), MathMin(v, maxScrollLeft(s.itemCount)))
    IN  [s EXCEPT !.scrollLeft = w,
                  !.trace = Append(@, Did("scrollLeft=", UNDEFINED, w, N(0), ""))]

\* onItemClick(item): the host's callback
onItemClick(s, item) ==
    [s EXCEPT !.callCount = @ + 1,
              !.lastItem = item,
              !.trace = Append(@, Did("onItemClick", item, N(0), N(0), ""))]

(***************************************************************************)
(* The animated scroll controller.                                         *)
(***************************************************************************)
\* requestAnimationFrame returns a handle no pending callback has
NewRafId(queue) ==
    LET ids == {f.id : f \in queue}
    IN  CHOOSE i \in 1 .. Cardinality(queue) + 1 :
            i \notin ids /\ \A j \in 1 .. i - 1 : j \in ids

\* stopActiveScroll that leaves the viewport at the target of the animation
\* it cancels
stopActiveScroll_JumpsToTarget(s) ==
    IF s.scrollRafRef # NULL
    THEN LET cancelled == {f \in s.rafQueue : f.id = s.scrollRafRef}
             s1 == [s EXCEPT !.rafQueue = {f \in @ : f.id # s.scrollRafRef},
                             !.scrollRafRef = NULL,
                             !.trace = Append(@, Did("cancelAnimationFrame", UNDEFINED,
                                                     N(s.scrollRafRef), N(0), ""))]
         IN  IF cancelled = {}
             THEN s1
             ELSE LET f == CHOOSE g \in cancelled : TRUE
                  IN  setScrollLeft(s1, Plus(f.start, f.change))
    ELSE s

stopActiveScroll(s) ==
    IF s.scrollRafRef # NULL
    THEN [s EXCEPT !.rafQueue = {f \in @ : f.id # s.scrollRafRef},
                   !.scrollRafRef = NULL,
                   !.trace = Append(@, Did("cancelAnimationFrame", UNDEFINED,
                                           N(s.scrollRafRef), N(0), ""))]
    ELSE s

\* smoothScrollTo that continues from the target of the animation it cancels
smoothScrollTo_FromOldTarget(s, target, duration, easingFn) ==
    IF ~s.containerRef
    THEN s
    ELSE LET s1 == stopActiveScroll(s)
             old == {f \in s.rafQueue : f.id = s.scrollRafRef}
             from == IF old = {} THEN s1.scrollLeft
                     ELSE LET f == CHOOSE g \in old : TRUE
                          IN  Plus(f.start, f.change)
             id == NewRafId(s1.rafQueue)
             cb == [id |-> id,
                    start |-> from,
                    change |-> Minus(target, from),
                    startTime |-> s1.now,
                    duration |-> duration,
                    easingFn |-> easingFn,
                    supersedes |-> s.scrollRafRef # NULL]
         IN  [s1 EXCEPT !.rafQueue = @ \cup {cb},
                        !.scrollRafRef = id,
                        !.trace = Append(@, Did("smoothScrollTo", UNDEFINED,
                                                target, duration, easingFn))]

smoothScrollTo(s, target, duration, easingFn) ==
    IF ~s.containerRef
    THEN s
    ELSE LET s1 == stopActiveScroll(s)
             id == NewRafId(s1.rafQueue)
             \* the closure of animateScroll; supersedes is history, not program
             \* state: whether starting this animation cancelled another
             cb == [id |-> id,
                    start |-> s1.scrollLeft,
                    change |-> Minus(target, s1.scrollLeft),
                    startTime |-> s1.now,
                    duration |-> duration,
                    easingFn |-> easingFn,
                    supersedes |-> s.scrollRafRef # NULL]
         IN  [s1 EXCEPT !.rafQueue = @ \cup {cb},
                        !.scrollRafRef = id,
                        !.trace = Append(@, Did("smoothScrollTo", UNDEFINED,
                                                target, duration, easingFn))]

\* the frame callback f, run by the browser at currentTime
animateScroll(s, f, currentTime) ==
    LET s0 == [s EXCEPT !.rafQueue = @ \ {f},
                        !.trace = Append(@, Did("animateScroll", UNDEFINED,
                                                Plus(f.start, f.change),
                                                f.duration, f.easingFn))]
        elapsed == N(currentTime - f.startTime)
        progress == MathMin(Over(elapsed, f.duration), N(1))
        easedProgress == Ease(f.easingFn, progress)
        s1 == setScrollLeft(s0, Plus(f.start, Times(f.change, easedProgress)))
    IN  IF Lt(elapsed, f.duration)
        THEN LET id == NewRafId(s1.rafQueue)
             IN  [s1 EXCEPT !.rafQueue = @ \cup {[f EXCEPT !.id = id]},
                            !.scrollRafRef = id]
        ELSE [s1 EXCEPT !.scrollRafRef = NULL]

(***************************************************************************)
(* Navigation.                                                             *)
(***************************************************************************)
\* the index divided by the width of an image instead of the step
indexForOffset_ByWidth(offset, step) == MathRound(Over(offset, N(imgWidth)))

\* Math.round(scrollLeft / scrollStep)
indexForOffset(offset, step) == MathRound(Over(offset, step))

\* index * scrollStep
offsetForIndex(index, step) == Times(N(index), step)

getCurrentIndex(s) ==
    IF ~s.containerRef THEN 0 ELSE indexForOffset(s.scrollLeft, scrollStep)

selectCard(s, index, easingFn) ==
    LET targetScroll == offsetForIndex(index, scrollStep)
        s1 == smoothScrollTo(s, targetScroll, N(SELECT_DURATION), easingFn)
    IN  onItemClick(s1, ItemAt(s1.itemCount, index))

\* scrollNext with the easing of a card click
scrollNext_EaseIn(s) ==
    LET currentIndex == getCurrentIndex(s)
        nextIndex == IF currentIndex + 1 < s.itemCount - 1
                     THEN currentIndex + 1 ELSE s.itemCount - 1
    IN  IF nextIndex # currentIndex THEN selectCard(s, nextIndex, "easeInQuad") ELSE s

\* scrollNext without the comparison of line 159
scrollNext_NoGuard(s) ==
    LET currentIndex == getCurrentIndex(s)
        nextIndex == IF currentIndex + 1 < s.itemCount - 1
                     THEN currentIndex + 1 ELSE s.itemCount - 1
    IN  selectCard(s, nextIndex, "easeOutCubic")

scrollNext(s) ==
    LET currentIndex == getCurrentIndex(s)
        nextIndex == IF currentIndex + 1 < s.itemCount - 1
                     THEN currentIndex + 1 ELSE s.itemCount - 1
    IN  IF nextIndex # currentIndex THEN selectCard(s, nextIndex, "easeOutCubic") ELSE s

scrollPrev(s) ==
    LET currentIndex == getCurrentIndex(s)
        prevIndex == IF currentIndex - 1 > 0 THEN currentIndex - 1 ELSE 0
    IN  IF prevIndex # currentIndex THEN selectCard(s, prevIndex, "easeOutCubic") ELSE s

\* handleCardClick with the easing of the buttons
handleCardClick_EaseOut(s, index) ==
    IF s.dragRef.hasMoved = "true" THEN s ELSE selectCard(s, index, "easeOutCubic")

handleCardClick(s, index) ==
    IF s.dragRef.hasMoved = "true" THEN s ELSE selectCard(s, index, "easeInQuad")

\* onKeyDown with the two arrows exchanged
onKeyDown_Swapped(s, key) ==
    LET s1 == IF key = "ArrowRight" THEN scrollPrev(s) ELSE s
    IN  IF key = "ArrowLeft" THEN scrollNext(s1) ELSE s1

onKeyDown(s, key) ==
    LET s1 == IF key = "ArrowLeft" THEN scrollPrev(s) ELSE s
    IN  IF key = "ArrowRight" THEN scrollNext(s1) ELSE s1

\* the effect notifying items[0] whatever initCenter is
effect_NotifyFirst(s) ==
    IF s.containerRef /\ s.itemCount > 0
    THEN LET step == Times(N(imgWidth), overlapFactor)
             startIndex == IF s.initCenter THEN MathFloor(Q(s.itemCount, 2)) ELSE 0
             s1 == IF s.initCenter
                   THEN setScrollLeft(s, Times(N(startIndex), step))
                   ELSE s
         IN  onItemClick(s1, ItemAt(s1.itemCount, 0))
    ELSE s

\* the effect of lines 77-103, run after mount and whenever a dependency changes
effect(s) ==
    IF s.containerRef /\ s.itemCount > 0
    THEN LET step == Times(N(imgWidth), overlapFactor)
             startIndex == IF s.initCenter THEN MathFloor(Q(s.itemCount, 2)) ELSE 0
             s1 == IF s.initCenter
                   THEN setScrollLeft(s, Times(N(startIndex), step))
                   ELSE s
         IN  onItemClick(s1, ItemAt(s1.itemCount, startIndex))
    ELSE s

(***************************************************************************)
(* Pointer events.                                                         *)
(***************************************************************************)
\* data-index={index}: the decimal digits of the index
RECURSIVE ToDigits(_)
ToDigits(i) == IF i < 10 THEN <<i>> ELSE Append(ToDigits(i \div 10), i % 10)

\* parseInt(str, 10) of a string of digits; NaN for the empty string
NaN == [nan |-> TRUE, value |-> 0]

RECURSIVE DigitsValue(_)
DigitsValue(str) ==
    IF Len(str) = 0 THEN 0
    ELSE 10 * DigitsValue(SubSeq(str, 1, Len(str) - 1)) + str[Len(str)]

parseInt(str) ==
    IF Len(str) = 0 THEN NaN ELSE [nan |-> FALSE, value |-> DigitsValue(str)]

\* document.elementFromPoint(..)?.closest('.card'): a card and its data-index, or null
NoCard == [card |-> FALSE, dataIndex |-> <<>>]

CardAt(index) == [card |-> TRUE, dataIndex |-> ToDigits(index)]

Hits(n) == {NoCard} \cup {CardAt(i) : i \in 0 .. n - 1}

InitialDrag ==
    [isDown |-> FALSE, startX |-> 0, scrollLeft |-> N(0), hasMoved |-> "undefined",
     lastX |-> 0, lastT |-> 0, velocity |-> N(0)]

\* onPointerDown without line 203: the velocity of the previous session stays
onPointerDown_KeepsVelocity(s, pageX) ==
    IF ~s.containerRef
    THEN s
    ELSE LET s1 == stopActiveScroll(s)
         IN  [s1 EXCEPT !.dragRef =
                 [isDown |-> TRUE,
                  startX |-> pageX,
                  scrollLeft |-> s1.scrollLeft,
                  hasMoved |-> "false",
                  lastX |-> pageX,
                  lastT |-> s1.now,
                  velocity |-> s.dragRef.velocity]]

onPointerDown(s, pageX) ==
    IF ~s.containerRef
    THEN s
    ELSE LET s1 == stopActiveScroll(s)
         IN  [s1 EXCEPT !.dragRef =
                 [isDown |-> TRUE,
                  startX |-> pageX,
                  scrollLeft |-> s1.scrollLeft,
                  hasMoved |-> "false",
                  lastX |-> pageX,
                  lastT |-> s1.now,
                  velocity |-> N(0)]]

\* onPointerMove scrolling with the pointer instead of against it
onPointerMove_Inverted(s, pageX) ==
    LET state == s.dragRef
    IN  IF ~state.isDown \/ ~s.containerRef
        THEN s
        ELSE LET x == pageX
                 dt == s.now - state.lastT
                 state1 == IF dt > SAMPLE_INTERVAL
                           THEN [state EXCEPT !.velocity = Q(x - state.lastX, dt),
                                              !.lastX = x,
                                              !.lastT = s.now]
                           ELSE state
                 totalDx == x - state1.startX
                 state2 == IF AbsInt(totalDx) > DRAG_THRESHOLD
                           THEN [state1 EXCEPT !.hasMoved = "true"]
                           ELSE state1
             IN  setScrollLeft([s EXCEPT !.dragRef = state2],
                               Plus(state2.scrollLeft, N(totalDx)))

\* onPointerMove deciding hasMoved anew on every move
onPointerMove_NotSticky(s, pageX) ==
    LET state == s.dragRef
    IN  IF ~state.isDown \/ ~s.containerRef
        THEN s
        ELSE LET x == pageX
                 dt == s.now - state.lastT
                 state1 == IF dt > SAMPLE_INTERVAL
                           THEN [state EXCEPT !.velocity = Q(x - state.lastX, dt),
                                              !.lastX = x,
                                              !.lastT = s.now]
                           ELSE state
                 totalDx == x - state1.startX
                 state2 == [state1 EXCEPT !.hasMoved =
                               IF AbsInt(totalDx) > DRAG_THRESHOLD
                               THEN "true" ELSE "false"]
             IN  setScrollLeft([s EXCEPT !.dragRef = state2],
                               Minus(state2.scrollLeft, N(totalDx)))

\* onPointerMove sampling already when dt is 10
onPointerMove_SamplesAtTen(s, pageX) ==
    LET state == s.dragRef
    IN  IF ~state.isDown \/ ~s.containerRef
        THEN s
        ELSE LET x == pageX
                 dt == s.now - state.lastT
                 state1 == IF dt >= SAMPLE_INTERVAL
                           THEN [state EXCEPT !.velocity = Q(x - state.lastX, dt),
                                              !.lastX = x,
                                              !.lastT = s.now]
                           ELSE state
                 totalDx == x - state1.startX
                 state2 == IF AbsInt(totalDx) > DRAG_THRESHOLD
                           THEN [state1 EXCEPT !.hasMoved = "true"]
                           ELSE state1
             IN  setScrollLeft([s EXCEPT !.dragRef = state2],
                               Minus(state2.scrollLeft, N(totalDx)))

onPointerMove(s, pageX) ==
    LET state == s.dragRef
    IN  IF ~state.isDown \/ ~s.containerRef
        THEN s
        ELSE LET x == pageX
                 dt == s.now - state.lastT
                 state1 == IF dt > SAMPLE_INTERVAL
                           THEN [state EXCEPT !.velocity = Q(x - state.lastX, dt),
                                              !.lastX = x,
                                              !.lastT = s.now]
                           ELSE state
                 totalDx == x - state1.startX
                 state2 == IF AbsInt(totalDx) > DRAG_THRESHOLD
                           THEN [state1 EXCEPT !.hasMoved = "true"]
                           ELSE state1
             IN  setScrollLeft([s EXCEPT !.dragRef = state2],
                               Minus(state2.scrollLeft, N(totalDx)))

\* the release without momentum: always the snap of lines 278-279
settle_NoMomentum(s) ==
    LET snapTarget == Times(N(MathRound(Over(s.scrollLeft, scrollStep))), scrollStep)
    IN  smoothScrollTo(s, snapTarget, N(SNAP_DURATION), "easeOutCubic")

\* the release taking the momentum branch already at |velocity| = 0.1
settle_ThresholdInclusive(s) ==
    LET velocity == s.dragRef.velocity
        projected == Minus(s.scrollLeft, Times(velocity, N(MOMENTUM_MULTIPLIER)))
        momentumTarget == Times(N(MathRound(Over(projected, scrollStep))), scrollStep)
        distance == MathAbs(Minus(momentumTarget, s.scrollLeft))
        momentumDuration ==
            MathMin(N(MOMENTUM_MAX_DURATION),
                    MathMax(N(MOMENTUM_MIN_DURATION),
                            Times(distance, DURATION_PER_DISTANCE)))
        snapTarget == Times(N(MathRound(Over(s.scrollLeft, scrollStep))), scrollStep)
    IN  IF Le(VELOCITY_THRESHOLD, MathAbs(velocity))
        THEN smoothScrollTo(s, momentumTarget, momentumDuration, "easeOutCubic")
        ELSE smoothScrollTo(s, snapTarget, N(SNAP_DURATION), "easeOutCubic")

\* the release without the lower limit of the momentum duration
settle_NoFloor(s) ==
    LET velocity == s.dragRef.velocity
        projected == Minus(s.scrollLeft, Times(velocity, N(MOMENTUM_MULTIPLIER)))
        momentumTarget == Times(N(MathRound(Over(projected, scrollStep))), scrollStep)
        distance == MathAbs(Minus(momentumTarget, s.scrollLeft))
        momentumDuration ==
            MathMin(N(MOMENTUM_MAX_DURATION), Times(distance, DURATION_PER_DISTANCE))
        snapTarget == Times(N(MathRound(Over(s.scrollLeft, scrollStep))), scrollStep)
    IN  IF Lt(VELOCITY_THRESHOLD, MathAbs(velocity))
        THEN smoothScrollTo(s, momentumTarget, momentumDuration, "easeOutCubic")
        ELSE smoothScrollTo(s, snapTarget, N(SNAP_DURATION), "easeOutCubic")

\* the release of a drag that moved beyond the threshold (lines 261-282)
settle(s) ==
    LET velocity == s.dragRef.velocity
        projected == Minus(s.scrollLeft, Times(velocity, N(MOMENTUM_MULTIPLIER)))
        momentumTarget == Times(N(MathRound(Over(projected, scrollStep))), scrollStep)
        distance == MathAbs(Minus(momentumTarget, s.scrollLeft))
        momentumDuration ==
            MathMin(N(MOMENTUM_MAX_DURATION),
                    MathMax(N(MOMENTUM_MIN_DURATION),
                            Times(distance, DURATION_PER_DISTANCE)))
        snapTarget == Times(N(MathRound(Over(s.scrollLeft, scrollStep))), scrollStep)
    IN  IF Lt(VELOCITY_THRESHOLD, MathAbs(velocity))
        THEN smoothScrollTo(s, momentumTarget, momentumDuration, "easeOutCubic")
        ELSE smoothScrollTo(s, snapTarget, N(SNAP_DURATION), "easeOutCubic")

\* onPointerUp dropping a velocity sample older than the sampling interval
onPointerUp_StaleVelocity(s, hit) ==
    LET state == s.dragRef
    IN  IF ~state.isDown \/ ~s.containerRef
        THEN s
        ELSE LET s1 == [s EXCEPT !.dragRef.isDown = FALSE,
                                 !.dragRef.velocity =
                                     IF s.now - state.lastT > SAMPLE_INTERVAL
                                     THEN N(0) ELSE @]
             IN  IF state.hasMoved # "true"
                 THEN IF hit.card /\ Len(hit.dataIndex) > 0
                      THEN LET index == parseInt(hit.dataIndex)
                           IN  IF ~index.nan
                               THEN handleCardClick(s1, index.value)
                               ELSE s1
                      ELSE s1
                 ELSE settle(s1)

\* onPointerUp without the test of isDown of line 237
onPointerUp_NoGuard(s, hit) ==
    LET state == s.dragRef
    IN  IF ~s.containerRef
        THEN s
        ELSE LET s1 == [s EXCEPT !.dragRef.isDown = FALSE]
             IN  IF state.hasMoved # "true"
                 THEN IF hit.card /\ Len(hit.dataIndex) > 0
                      THEN LET index == parseInt(hit.dataIndex)
                           IN  IF ~index.nan
                               THEN handleCardClick(s1, index.value)
                               ELSE s1
                      ELSE s1
                 ELSE settle(s1)

\* onPointerUp ending the session only when the gesture was a drag
onPointerUp_TapKeepsDown(s, hit) ==
    LET state == s.dragRef
    IN  IF ~state.isDown \/ ~s.containerRef
        THEN s
        ELSE IF state.hasMoved # "true"
             THEN IF hit.card /\ Len(hit.dataIndex) > 0
                  THEN LET index == parseInt(hit.dataIndex)
                       IN  IF ~index.nan
                           THEN handleCardClick(s, index.value)
                           ELSE s
                  ELSE s
             ELSE settle([s EXCEPT !.dragRef.isDown = FALSE])

\* onPointerUp, also the handler of pointercancel
onPointerUp(s, hit) ==
    LET state == s.dragRef
    IN  IF ~state.isDown \/ ~s.containerRef
        THEN s
        ELSE LET s1 == [s EXCEPT !.dragRef.isDown = FALSE]
             IN  IF state.hasMoved # "true"
                 THEN IF hit.card /\ Len(hit.dataIndex) > 0
                      THEN LET index == parseInt(hit.dataIndex)
                           IN  IF ~index.nan
                               THEN handleCardClick(s1, index.value)
                               ELSE s1
                      ELSE s1
                 ELSE settle(s1)

(***************************************************************************)
(* Events.                                                                 *)
(***************************************************************************)
\* type: the event; key: the key of a keydown; x: the pageX of a pointer
\* event or the dt of a tick; hit: the card under a release; cb: the frame
\* callback a frame ran; trace: what the handler did, in order
Ev(type, key, x, hit, cb, trace) ==
    [type |-> type, key |-> key, x |-> x, hit |-> hit, cb |-> cb, trace |-> trace]

NoCallback ==
    [id |-> NULL, start |-> N(0), change |-> N(0), startTime |-> 0,
     duration |-> N(0), easingFn |-> "", supersedes |-> FALSE]

\* The program reads the clock only to subtract a time stamp it took earlier
\* (startTime of a frame callback, lastT of the active drag session), so a
\* state is kept with the clock's origin moved to the oldest time stamp
\* still in use, or to now when none is.
Origin(t) ==
    LET live == {f.startTime : f \in t.rafQueue}
                  \cup (IF t.dragRef.isDown THEN {t.dragRef.lastT} ELSE {})
    IN  IF live = {} THEN t.now ELSE CHOOSE m \in live : \A o \in live : m <= o

Rebase(t) ==
    LET o == Origin(t)
    IN  [t EXCEPT !.now = @ - o,
                  !.rafQueue = {[f EXCEPT !.startTime = @ - o] : f \in @},
                  !.dragRef.lastT = IF t.dragRef.isDown THEN @ - o ELSE @]

\* the state a handler leaves, with the event that ran it
Commit(t, type, key, x, hit, cb) ==
    LET u == Rebase(t)
    IN  /\ u.callCount <= MaxCalls
        /\ containerRef' = u.containerRef
        /\ scrollLeft' = u.scrollLeft
        /\ scrollRafRef' = u.scrollRafRef
        /\ rafQueue' = u.rafQueue
        /\ dragRef' = u.dragRef
        /\ now' = u.now
        /\ callCount' = u.callCount
        /\ lastItem' = u.lastItem
        /\ peakDx' = IF type = "pointerdown"
                     THEN 0
                     ELSE IF type = "pointermove" /\ dragRef.isDown /\ containerRef
                          THEN IF AbsInt(x - dragRef.startX) > peakDx
                               THEN AbsInt(x - dragRef.startX) ELSE peakDx
                          ELSE peakDx
        /\ ev' = IF t = St THEN ev ELSE Ev(type, key, x, hit, cb, u.trace)
        /\ gestures' = gestures + (IF type = "pointerdown" THEN 1 ELSE 0)
        /\ UNCHANGED <<itemCount, initCenter>>

Init ==
    /\ phase = "init"
    /\ itemCount \in 0 .. MaxItems
    /\ initCenter \in BOOLEAN
    /\ containerRef = FALSE
    /\ scrollLeft = N(0)
    /\ scrollRafRef = NULL
    /\ rafQueue = {}
    /\ dragRef = InitialDrag
    /\ now = 0
    /\ callCount = 0
    /\ lastItem = UNDEFINED
    /\ gestures = 0
    /\ peakDx = 0
    /\ ev = Ev("init", "", 0, NoCard, NoCallback, <<>>)

\* first render: the refs are attached, then the effect runs
Mount ==
    /\ phase = "init"
    /\ phase' = "mounted"
    /\ Commit(effect([St EXCEPT !.containerRef = TRUE]), "mount", "", 0, NoCard, NoCallback)

\* a host render that changes a dependency of the effect (items, onItemClick)
Rerender ==
    /\ phase = "mounted"
    /\ UNCHANGED phase
    /\ Commit(effect(St), "rerender", "", 0, NoCard, NoCallback)

Unmount ==
    /\ phase = "mounted"
    /\ phase' = "unmounted"
    /\ Commit([St EXCEPT !.containerRef = FALSE], "unmount", "", 0, NoCard, NoCallback)

NextButton ==
    /\ phase = "mounted"
    /\ UNCHANGED phase
    /\ Commit(scrollNext(St), "next", "", 0, NoCard, NoCallback)

PrevButton ==
    /\ phase = "mounted"
    /\ UNCHANGED phase
    /\ Commit(scrollPrev(St), "prev", "", 0, NoCard, NoCallback)

KeyDown(key) ==
    /\ phase = "mounted"
    /\ UNCHANGED phase
    /\ Commit(onKeyDown(St, key), "keydown", key, 0, NoCard, NoCallback)

\* a single pointer: no pointerdown while it is already down
PointerDown(pageX) ==
    /\ phase = "mounted"
    /\ ~dragRef.isDown
    /\ gestures < MaxGestures
    /\ UNCHANGED phase
    /\ Commit(onPointerDown(St, pageX), "pointerdown", "", pageX, NoCard, NoCallback)

PointerMove(pageX) ==
    /\ phase = "mounted"
    /\ UNCHANGED phase
    /\ Commit(onPointerMove(St, pageX), "pointermove", "", pageX, NoCard, NoCallback)

PointerUp(hit) ==
    /\ phase = "mounted"
    /\ UNCHANGED phase
    /\ Commit(onPointerUp(St, hit), "pointerup", "", 0, hit, NoCallback)

PointerCancel(hit) ==
    /\ phase = "mounted"
    /\ UNCHANGED phase
    /\ Commit(onPointerUp(St, hit), "pointercancel", "", 0, hit, NoCallback)

\* the browser runs a registered frame callback
Frame ==
    /\ \E f \in rafQueue :
           /\ \/ \E dt \in FrameDts : (now - f.startTime) % dt = 0
              \/ Le(f.duration, N(now - f.startTime))
           /\ Commit(animateScroll(St, f, now), "frame", "", 0, NoCard, f)
    /\ UNCHANGED phase

\* time passes; only an animation in flight or a drag session reads the clock
Tick(dt) ==
    /\ \/ /\ dt \in DragDts
          /\ dragRef.isDown
          /\ rafQueue = {}
          /\ now + dt - dragRef.lastT <= MaxSampleAge
       \/ dt \in FrameDts /\ rafQueue # {}
    /\ now + dt <= MaxNow
    /\ now' = now + dt
    /\ ev' = Ev("tick", "", dt, NoCard, NoCallback, <<>>)
    /\ UNCHANGED <<phase, itemCount, initCenter, containerRef, scrollLeft,
                   scrollRafRef, rafQueue, dragRef, callCount, lastItem, gestures, peakDx>>

Next ==
    \/ Mount
    \/ NextButton
    \/ PrevButton
    \/ \E key \in Keys : KeyDown(key)
    \/ \E pageX \in DownXs : PointerDown(pageX)
    \/ \E pageX \in MoveXs : PointerMove(pageX)
    \/ \E hit \in Hits(itemCount) : PointerUp(hit)
    \/ \E hit \in Hits(itemCount) : PointerCancel(hit)
    \/ Frame
    \/ \E dt \in DragDts \cup FrameDts : Tick(dt)

Spec == Init /\ [][Next]_vars

(***************************************************************************)
(* The coordinate mapper alone: an offset is produced, from an index by    *)
(* index * step or by the viewport of n items, and getCurrentIndex's       *)
(* expression is applied to it.                                            *)
(***************************************************************************)
Probe(type, from, step, index, offset, result) ==
    [type |-> type, from |-> from, step |-> step, index |-> index,
     offset |-> offset, result |-> result]

MapperInit ==
    /\ phase = "init"
    /\ itemCount \in 0 .. MaxItems
    /\ initCenter = FALSE
    /\ containerRef = TRUE
    /\ scrollLeft = N(0)
    /\ scrollRafRef = NULL
    /\ rafQueue = {}
    /\ dragRef = InitialDrag
    /\ now = 0
    /\ callCount = 0
    /\ lastItem = UNDEFINED
    /\ gestures = 0
    /\ peakDx = 0
    /\ ev = Probe("init", "", scrollStep, 0, N(0), 0)

MapperFrame ==
    UNCHANGED <<phase, itemCount, initCenter, containerRef, scrollLeft,
                scrollRafRef, rafQueue, dragRef, now, callCount, lastItem,
                gestures, peakDx>>

\* targetScroll = index * scrollStep for a card of the list
OffsetForIndex(index, width, factor, err) ==
    LET step == Times(N(width), factor)
    IN  /\ index \in 0 .. itemCount - 1
        /\ ev' = Probe("offset", "offsetForIndex", step, index,
                       Plus(offsetForIndex(index, step), err), 0)
        /\ MapperFrame

\* an offset the viewport of itemCount items holds
ViewportOffset(k) ==
    /\ Le(N(k * OffsetGrain), maxScrollLeft(itemCount))
    /\ ev' = Probe("offset", "viewport", scrollStep, 0, N(k * OffsetGrain), 0)
    /\ MapperFrame

IndexForOffset ==
    /\ ev.type = "offset"
    /\ ev' = [ev EXCEPT !.type = "index",
                        !.result = indexForOffset(ev.offset, ev.step)]
    /\ MapperFrame

MapperNext ==
    \/ \E index \in 0 .. MaxItems - 1 : \E width \in ImgWidths :
           \E factor \in OverlapFactors : \E err \in FloatErrs :
               OffsetForIndex(index, width, factor, err)
    \/ \E k \in 0 .. (maxScrollLeft(MaxItems)[1] \div OffsetGrain) : ViewportOffset(k)
    \/ IndexForOffset

MapperSpec == MapperInit /\ [][MapperNext]_vars

\* the widget of a single item, with drags that reach into the buffer
FarDragInit == Init /\ itemCount = 1 /\ ~initCenter

FarDragNext ==
    \/ Next
    \/ \E pageX \in FarMoveXs : PointerMove(pageX)

FarDragSpec == FarDragInit /\ [][FarDragNext]_vars

(***************************************************************************)
(* The release of a drag alone: the widget is mounted and in a drag        *)
(* session that moved beyond the threshold, the pointer back where it      *)
(* went down, at any offset of the viewport and with any velocity of the   *)
(* last sample; the pointer is released and the animation runs.            *)
(***************************************************************************)
ReleaseInit ==
    /\ phase = "mounted"
    /\ itemCount \in 1 .. MaxItems
    /\ initCenter = FALSE
    /\ containerRef = TRUE
    /\ \E k \in 0 .. (maxScrollLeft(MaxItems)[1] \div OffsetGrain) :
           /\ Le(N(k * OffsetGrain), maxScrollLeft(itemCount))
           /\ scrollLeft = N(k * OffsetGrain)
    /\ scrollRafRef = NULL
    /\ rafQueue = {}
    /\ \E pageX \in DownXs : \E velocity \in Velocities :
           /\ dragRef = [isDown |-> TRUE, startX |-> pageX, scrollLeft |-> scrollLeft,
                         hasMoved |-> "true", lastX |-> pageX, lastT |-> 0,
                         velocity |-> velocity]
           /\ ev = Ev("pointermove", "", pageX, NoCard, NoCallback,
                      <<Did("scrollLeft=", UNDEFINED, scrollLeft, N(0), "")>>)
    /\ now = 0
    /\ callCount = 1
    /\ lastItem = ItemAt(itemCount, 0)
    /\ gestures = 1
    /\ peakDx = 2 * DRAG_THRESHOLD

ReleaseNext ==
    \/ \E hit \in Hits(itemCount) : PointerUp(hit)
    \/ \E hit \in Hits(itemCount) : PointerCancel(hit)
    \/ Frame
    \/ \E dt \in FrameDts : Tick(dt)

ReleaseSpec == ReleaseInit /\ [][ReleaseNext]_vars

\* the widget in a host that renders it again and removes it
LifecycleNext ==
    \/ Next
    \/ Rerender
    \/ Unmount

LifecycleSpec == Init /\ [][LifecycleNext]_vars


(***************************************************************************)
(* Properties.                                                             *)
(***************************************************************************)
\* no drag session is active and no scroll animation is in flight
Settled ==
    /\ phase = "mounted"
    /\ ~dragRef.isDown
    /\ rafQueue = {}
    /\ scrollRafRef = NULL

\* the positions in a record of effects at which op was done
Ops(trace, op) == {i \in DOMAIN trace : trace[i].op = op}

\* the frame callbacks of s that drive an animation from start to target,
\* started at time startTime
Animations(s, start, target, duration, easingFn, startTime) ==
    {f \in s.rafQueue : /\ f.id = s.scrollRafRef
                        /\ f.start = start
                        /\ Plus(f.start, f.change) = target
                        /\ f.duration = N(duration)
                        /\ f.easingFn = easingFn
                        /\ f.startTime = startTime}

\* the latest event was a release (pointer-up or pointer-cancel) of a session
Released == ev.type \in {"pointerup", "pointercancel"}

(***************************************************************************)
(* C1  Rest invariant: in every reachable state in which no drag session   *)
(* is active and no scroll animation is in flight, scrollLeft is           *)
(* k * scrollStep for an integer k in 0 .. items.length - 1.               *)
(* Refuted: a drag of at most DRAG_THRESHOLD released over no card leaves  *)
(* scrollLeft where the drag put it, and nothing animates.                 *)
(***************************************************************************)
C1_RestInvariant ==
    (Settled /\ itemCount > 0) =>
        \E k \in 0 .. itemCount - 1 : scrollLeft = Times(N(k), scrollStep)

(***************************************************************************)
(* C2  Drag release notifies: a pointer-up or pointer-cancel ending a      *)
(* gesture that moved beyond the drag threshold calls onItemClick exactly  *)
(* once, with the item at the index of the settle target, in the step      *)
(* that starts the settle animation.                                       *)
(* Refuted: lines 261-282 start the animation and never call onItemClick.  *)
(***************************************************************************)
C2_DragReleaseNotifies ==
    (Released /\ peakDx > DRAG_THRESHOLD) =>
        LET starts == Ops(ev.trace, "smoothScrollTo")
            calls == Ops(ev.trace, "onItemClick")
        IN  /\ Cardinality(starts) = 1
            /\ Cardinality(calls) = 1
            /\ \A i \in starts : \A j \in calls :
                   ev.trace[j].item =
                       ItemAt(itemCount, MathRound(Over(ev.trace[i].x, scrollStep)))

(***************************************************************************)
(* C3  Animation exclusivity: at most one frame callback is pending; a     *)
(* callback of a superseded animation never runs again (every pending      *)
(* callback is the one scrollRafRef holds); and an animation that          *)
(* superseded another and ran to its last frame leaves scrollLeft at       *)
(* exactly its target.                                                     *)
(* Refuted in its last part: a target outside the scrollable range (C7,    *)
(* C11) is never reached, the viewport clamps the write.                   *)
(***************************************************************************)
C3_AnimationExclusivity ==
    /\ Cardinality(rafQueue) <= 1
    /\ \A f \in rafQueue : f.id = scrollRafRef
    /\ (ev.type = "frame" /\ ev.cb.supersedes /\ scrollRafRef = NULL) =>
           scrollLeft = Plus(ev.cb.start, ev.cb.change)

(***************************************************************************)
(* C4  Mount notification: mounting with n > 0 items calls onItemClick     *)
(* exactly once, with items[0] if initCenter is false and with             *)
(* items[floor(n/2)] if it is true; with initCenter scrollLeft is written  *)
(* directly to floor(n/2) * scrollStep and no animation starts; without    *)
(* it scrollLeft is not written.                                           *)
(***************************************************************************)
C4_MountNotification ==
    (ev.type = "mount" /\ itemCount > 0) =>
        LET center == itemCount \div 2
            writes == Ops(ev.trace, "scrollLeft=")
        IN  /\ Cardinality(Ops(ev.trace, "onItemClick")) = 1
            /\ callCount = 1
            /\ lastItem = [defined |-> TRUE,
                           index |-> IF initCenter THEN center ELSE 0]
            /\ Ops(ev.trace, "smoothScrollTo") = {}
            /\ rafQueue = {} /\ scrollRafRef = NULL
            /\ initCenter =>
                   /\ Cardinality(writes) = 1
                   /\ \A i \in writes : ev.trace[i].x = N(center * 160)
                   /\ scrollLeft = N(center * 160)
            /\ ~initCenter => writes = {} /\ scrollLeft = N(0)

\* mounted with three items and initCenter: items[1] notified, scrollLeft 160
C4_Witness ==
    /\ ev.type = "mount"
    /\ itemCount = 3 /\ initCenter
    /\ lastItem = [defined |-> TRUE, index |-> 1]
    /\ callCount = 1
    /\ scrollLeft = N(160)

\* t is the state s with an animation of SELECT_DURATION started towards
\* index j with easingFn and items[j] notified once, and nothing else
SelectsFrom(s, t, j, easingFn) ==
    /\ t.trace = <<Did("smoothScrollTo", UNDEFINED, N(j * 160), N(600), easingFn),
                   Did("onItemClick", [defined |-> TRUE, index |-> j],
                       N(0), N(0), "")>>
    /\ t.callCount = s.callCount + 1
    /\ t.lastItem = [defined |-> TRUE, index |-> j]
    /\ Cardinality(t.rafQueue) = 1
    /\ Animations(t, s.scrollLeft, N(j * 160), 600, easingFn, s.now) = t.rafQueue
    /\ t.scrollLeft = s.scrollLeft
    /\ t.dragRef = s.dragRef

(***************************************************************************)
(* C5  Next/Previous step: settled at index i, Next with                   *)
(* i < items.length - 1 starts an ease-out-cubic animation of duration     *)
(* 600 towards (i+1) * scrollStep and calls onItemClick exactly once with  *)
(* items[i+1]; Previous with i > 0 does the same towards                   *)
(* (i-1) * scrollStep with items[i-1].                                     *)
(***************************************************************************)
C5_NextPrevStep ==
    \A i \in 0 .. itemCount - 1 :
        (Settled /\ scrollLeft = N(i * 160)) =>
            /\ i < itemCount - 1 =>
                   SelectsFrom(St, scrollNext(St), i + 1, "easeOutCubic")
            /\ i > 0 =>
                   SelectsFrom(St, scrollPrev(St), i - 1, "easeOutCubic")

\* Next pressed at rest at index 0: the animation 0 -> 160 is pending and
\* items[1] was notified
C5_Witness ==
    /\ ev.type = "next"
    /\ ~dragRef.isDown
    /\ Ops(ev.trace, "cancelAnimationFrame") = {}
    /\ lastItem = [defined |-> TRUE, index |-> 1]
    /\ Animations(St, N(0), N(160), 600, "easeOutCubic", now) # {}

(***************************************************************************)
(* C6  Edge clamping: Next while the current index is items.length - 1,    *)
(* and Previous while the current index is 0, do nothing: onItemClick is   *)
(* not called, scrollLeft is unchanged, no animation is started or         *)
(* cancelled.                                                              *)
(***************************************************************************)
C6_EdgeClamping ==
    phase = "mounted" =>
        /\ getCurrentIndex(St) = itemCount - 1 => scrollNext(St) = St
        /\ getCurrentIndex(St) = 0 => scrollPrev(St) = St

\* at rest on the last of three cards after the animation that led there
C6_Witness ==
    /\ Settled
    /\ ev.type = "frame"
    /\ itemCount = 3
    /\ scrollLeft = N(320)
    /\ getCurrentIndex(St) = itemCount - 1
    /\ scrollNext(St) = St

(***************************************************************************)
(* C7  Empty items disable navigation: with items empty no input event     *)
(* calls onItemClick, starts an animation or changes scrollLeft, and       *)
(* mount calls nothing.                                                    *)
(* Refuted: with items.length = 0 scrollNext computes                      *)
(* Math.min(0 + 1, -1) = -1, which differs from the current index 0, and   *)
(* selects card -1.                                                        *)
(***************************************************************************)
C7_EmptyItems ==
    itemCount = 0 =>
        /\ callCount = 0
        /\ rafQueue = {} /\ scrollRafRef = NULL
        /\ scrollLeft = N(0)
        /\ \A op \in {"onItemClick", "smoothScrollTo", "scrollLeft="} :
               Ops(ev.trace, op) = {}

(***************************************************************************)
(* C8  Tap dispatch: a session whose pointer-moves never took the pointer  *)
(* more than 10 from where it went down is, on pointer-up or               *)
(* pointer-cancel over a card, a selection of that card: onItemClick is    *)
(* called exactly once with the card's item and an ease-in-quad animation  *)
(* of duration 600 towards index * scrollStep starts; wherever it is       *)
(* released, such a session starts no ease-out-cubic (momentum or snap)    *)
(* animation.                                                              *)
(***************************************************************************)
C8_TapDispatch ==
    (phase = "mounted" /\ dragRef.isDown /\ peakDx <= 10) =>
        /\ \A i \in 0 .. itemCount - 1 :
               LET t == onPointerUp(St, CardAt(i))
               IN  /\ Cardinality(Ops(t.trace, "onItemClick")) = 1
                   /\ Cardinality(Ops(t.trace, "smoothScrollTo")) = 1
                   /\ t.callCount = callCount + 1
                   /\ t.lastItem = [defined |-> TRUE, index |-> i]
                   /\ Cardinality(t.rafQueue) = 1
                   /\ Animations(t, scrollLeft, N(i * 160), 600, "easeInQuad", now)
                          = t.rafQueue
                   /\ ~t.dragRef.isDown
        /\ \A hit \in Hits(itemCount) :
               LET t == onPointerUp(St, hit)
               IN  /\ \A j \in Ops(t.trace, "smoothScrollTo") :
                          t.trace[j].easingFn # "easeOutCubic"
                   /\ \A f \in t.rafQueue \ rafQueue : f.easingFn # "easeOutCubic"

\* a session that moved by exactly 10 was released over card 1: items[1] was
\* notified and the ease-in-quad animation towards 160 is pending
C8_Witness ==
    /\ Released
    /\ peakDx = 10
    /\ ev.hit = CardAt(1)
    /\ lastItem = [defined |-> TRUE, index |-> 1]
    /\ Cardinality(Ops(ev.trace, "onItemClick")) = 1
    /\ \E f \in rafQueue : /\ f.easingFn = "easeInQuad"
                           /\ f.duration = N(600)
                           /\ Plus(f.start, f.change) = N(160)

(***************************************************************************)
(* C9  Keyboard navigation: from any state a key-down of ArrowRight has    *)
(* exactly the effect of Next and a key-down of ArrowLeft exactly the      *)
(* effect of Previous; a key-down of any other key changes nothing.        *)
(***************************************************************************)
C9_KeyboardNavigation ==
    phase = "mounted" =>
        /\ onKeyDown(St, "ArrowRight") = scrollNext(St)
        /\ onKeyDown(St, "ArrowLeft") = scrollPrev(St)
        /\ \A key \in Keys \ {"ArrowLeft", "ArrowRight"} : onKeyDown(St, key) = St

\* ArrowRight pressed at index 0: the animation towards 160 is pending and
\* items[1] was notified
C9_Witness ==
    /\ ev.type = "keydown"
    /\ ev.key = "ArrowRight"
    /\ lastItem = [defined |-> TRUE, index |-> 1]
    /\ \E f \in rafQueue : /\ f.id = scrollRafRef
                           /\ f.start = N(0)
                           /\ Plus(f.start, f.change) = N(160)
                           /\ f.easingFn = "easeOutCubic"

(***************************************************************************)
(* C10  Momentum projection: the release of a drag that moved beyond the   *)
(* threshold with |velocity| > 0.1 animates with ease-out-cubic towards    *)
(* round((scrollLeft - velocity * 200) / scrollStep) * scrollStep; with    *)
(* scrollLeft = 0, scrollStep = 160 and velocity = -1 the projection is    *)
(* 200, the target 160 and the animation ends at index 1.                  *)
(***************************************************************************)
C10_MomentumProjection ==
    /\ (/\ phase = "mounted"
        /\ dragRef.isDown
        /\ peakDx > 10
        /\ Lt(Q(1, 10), MathAbs(dragRef.velocity))) =>
           \A hit \in Hits(itemCount) :
               LET t == onPointerUp(St, hit)
                   projected == Minus(scrollLeft, Times(dragRef.velocity, N(200)))
                   target == Times(N(MathRound(Over(projected, N(160)))), N(160))
                   starts == Ops(t.trace, "smoothScrollTo")
               IN  /\ Cardinality(starts) = 1
                   /\ \A j \in starts : /\ t.trace[j].x = target
                                        /\ t.trace[j].easingFn = "easeOutCubic"
                   /\ Cardinality(t.rafQueue) = 1
                   /\ \A f \in t.rafQueue : /\ f.id = t.scrollRafRef
                                            /\ f.start = scrollLeft
                                            /\ Plus(f.start, f.change) = target
                                            /\ f.easingFn = "easeOutCubic"
                   /\ (scrollLeft = N(0) /\ dragRef.velocity = N(-1)) =>
                          projected = N(200) /\ target = N(160)
    /\ (/\ ev.type = "frame"
        /\ scrollRafRef = NULL
        /\ ev.cb.start = N(0)
        /\ ev.cb.change = N(160)
        /\ ev.cb.duration = N(MOMENTUM_MIN_DURATION)) =>
           scrollLeft = N(160) /\ getCurrentIndex(St) = 1

\* released at scrollLeft 0 with velocity -1, the momentum animation towards
\* 160 has run its last frame and the widget rests at index 1
C10_Witness ==
    /\ ev.type = "frame"
    /\ Settled
    /\ peakDx > 10
    /\ dragRef.velocity = N(-1)
    /\ ev.cb.start = N(0)
    /\ ev.cb.change = N(160)
    /\ ev.cb.easingFn = "easeOutCubic"
    /\ ev.cb.duration = N(800)
    /\ scrollLeft = N(160)

(***************************************************************************)
(* C11  Settle target is a valid step: the target a drag release (momentum *)
(* or snap branch) hands to smoothScrollTo is k * scrollStep for a k in    *)
(* 0 .. items.length - 1, for every release offset and velocity.           *)
(* Refuted: lines 266-280 round the projection to a multiple of            *)
(* scrollStep and never clamp it (shown here for a list that is not        *)
(* empty).                                                                 *)
(***************************************************************************)
C11_SettleTargetValid ==
    (Released /\ peakDx > DRAG_THRESHOLD /\ itemCount > 0) =>
        \A i \in Ops(ev.trace, "smoothScrollTo") :
            \E k \in 0 .. itemCount - 1 : ev.trace[i].x = N(k * 160)

(***************************************************************************)
(* C12  Teardown releases the animation: once the widget is unmounted no   *)
(* frame callback of it is registered and no frame writes scrollLeft.      *)
(* Refuted: the effect of lines 77-103 returns no cleanup, so unmounting   *)
(* leaves the callback registered; it runs, writes the element it          *)
(* captured and registers itself again.                                    *)
(***************************************************************************)
C12_TeardownReleases ==
    (phase = "unmounted" /\ itemCount > 0) => (rafQueue = {} /\ ev.type # "frame")

(***************************************************************************)
(* C13  Round trip of the coordinate mapper: for every index i in          *)
(* 0 .. items.length - 1 and every step > 0, the index of the offset       *)
(* i * step is i.                                                          *)
(***************************************************************************)
C13_RoundTrip ==
    (ev.type = "index" /\ ev.from = "offsetForIndex") =>
        /\ ev.index \in 0 .. itemCount - 1
        /\ ev.result = ev.index

\* the offset of index 2 with step 150 * 3/4, rounded up by the product,
\* mapped back to 2
C13_Witness ==
    /\ ev.type = "index"
    /\ ev.from = "offsetForIndex"
    /\ ev.step = <<225, 2>>
    /\ ev.index = 2
    /\ Lt(N(225), ev.offset)
    /\ ev.result = 2

(***************************************************************************)
(* C14  Selected index is clamped: for every offset the viewport can hold  *)
(* (the buffer allows offsets beyond (items.length - 1) * scrollStep) the  *)
(* index getCurrentIndex returns is round(scrollLeft / scrollStep)         *)
(* clamped to 0 .. items.length - 1, and 0 when the list is empty.         *)
(* Refuted: line 146 returns the rounded quotient unclamped.               *)
(***************************************************************************)
C14_IndexClamped ==
    (ev.type = "index" /\ ev.from = "viewport") =>
        LET rounded == MathRound(Over(ev.offset, N(160)))
        IN  ev.result = IF itemCount = 0 THEN 0
                        ELSE IF rounded > itemCount - 1 THEN itemCount - 1
                        ELSE IF rounded < 0 THEN 0
                        ELSE rounded

(***************************************************************************)
(* C15  Failed hit-test is a no-op: a tap (pointer-down, then pointer-up   *)
(* without exceeding the threshold) released where no card is leaves       *)
(* scrollLeft, the animation in flight (if any) and the number of          *)
(* onItemClick calls as they were before the pointer-down.                 *)
(* Refuted: onPointerDown cancels the animation in flight (line 194) and   *)
(* the tap branch does not start it again.                                 *)
(***************************************************************************)
C15_FailedHitTestNoOp ==
    (phase = "mounted" /\ ~dragRef.isDown /\ itemCount > 0) =>
        \A pageX \in DownXs :
            LET down == onPointerDown(St, pageX)
                up == onPointerUp(down, NoCard)
            IN  /\ up.scrollLeft = scrollLeft
                /\ up.rafQueue = rafQueue
                /\ up.scrollRafRef = scrollRafRef
                /\ up.callCount = callCount

(***************************************************************************)
(* C16  Single writer of scrollLeft: in no reachable state is a drag       *)
(* session active while a scroll animation is in flight.                   *)
(* Refuted: scrollNext, scrollPrev and onKeyDown do not look at            *)
(* dragRef.isDown, so a key pressed during a drag starts an animation.     *)
(***************************************************************************)
C16_SingleWriter ==
    itemCount > 0 => ~(dragRef.isDown /\ (rafQueue # {} \/ scrollRafRef # NULL))

(***************************************************************************)
(* C17  Every notification carries a valid item: each call of onItemClick, *)
(* from mount, Next, Previous, the arrow keys or a tap, passes items[k]    *)
(* for a k in 0 .. items.length - 1, never undefined.                      *)
(* Refuted: getCurrentIndex is not clamped (C14), so Previous from an      *)
(* offset in the buffer selects a card past the end of the list.           *)
(***************************************************************************)
C17_ValidItem ==
    /\ \A i \in Ops(ev.trace, "onItemClick") :
           /\ ev.trace[i].item.defined
           /\ ev.trace[i].item.index \in 0 .. itemCount - 1
    /\ callCount > 0 => lastItem.defined /\ lastItem.index \in 0 .. itemCount - 1

(***************************************************************************)
(* C18  Animation completes on target: every frame step of an animation    *)
(* from start towards T with duration D leaves                             *)
(* scrollLeft = start + (T - start) * easing(min(elapsed / D, 1)); the     *)
(* step with elapsed >= D leaves scrollLeft = T exactly, registers no      *)
(* further frame and leaves scrollRafRef null.                             *)
(* Refuted: a target outside the scrollable range (C11, C7) is written     *)
(* but not held, the viewport clamps it.                                   *)
(***************************************************************************)
C18_AnimationCompletes ==
    itemCount > 0 =>
        \A f \in rafQueue :
            LET elapsed == Q(now - f.startTime, 1)
                ratio == Over(elapsed, f.duration)
                progress == IF Lt(ratio, N(1)) THEN ratio ELSE N(1)
                eased == IF f.easingFn = "easeInQuad"
                         THEN Times(progress, progress)
                         ELSE LET u == Minus(N(1), progress)
                              IN  Minus(N(1), Times(u, Times(u, u)))
                target == Plus(f.start, f.change)
                t == animateScroll(St, f, now)
            IN  /\ t.scrollLeft = Plus(f.start, Times(Minus(target, f.start), eased))
                /\ ~Lt(elapsed, f.duration) =>
                       /\ t.scrollLeft = target
                       /\ t.rafQueue = rafQueue \ {f}
                       /\ t.scrollRafRef = NULL

(***************************************************************************)
(* C19  Pointer-down opens a fresh session: with the viewport attached,    *)
(* every pointer-down cancels the animation in flight and sets the drag    *)
(* session to isDown with startX = lastX = pageX, scrollLeft the current   *)
(* scrollLeft, hasMoved false and velocity 0, whatever the previous        *)
(* gesture left; it writes no scrollLeft and does not call onItemClick.    *)
(***************************************************************************)
C19_PointerDownFresh ==
    phase = "mounted" =>
        \A pageX \in DownXs :
            LET t == onPointerDown(St, pageX)
            IN  /\ t.rafQueue = {}
                /\ t.scrollRafRef = NULL
                /\ t.dragRef.isDown
                /\ t.dragRef.startX = pageX
                /\ t.dragRef.lastX = pageX
                /\ t.dragRef.scrollLeft = scrollLeft
                /\ t.dragRef.hasMoved = "false"
                /\ t.dragRef.velocity = N(0)
                /\ t.dragRef.lastT = now
                /\ t.scrollLeft = scrollLeft
                /\ t.callCount = callCount /\ t.lastItem = lastItem
                /\ \A op \in {"scrollLeft=", "onItemClick", "smoothScrollTo"} :
                       Ops(t.trace, op) = {}

\* a pointer-down that cancelled the animation in flight: the session is
\* fresh and nothing is pending
C19_Witness ==
    /\ ev.type = "pointerdown"
    /\ Ops(ev.trace, "cancelAnimationFrame") # {}
    /\ rafQueue = {} /\ scrollRafRef = NULL
    /\ dragRef.isDown
    /\ dragRef.startX = ev.x /\ dragRef.lastX = ev.x
    /\ dragRef.scrollLeft = scrollLeft
    /\ dragRef.hasMoved = "false"
    /\ dragRef.velocity = N(0)

(***************************************************************************)
(* C20  Cancellation does not move the offset: cancelling the animation    *)
(* in flight, by a new animation or by pointer-down, leaves scrollLeft at  *)
(* the value the last frame step wrote, neither at the start nor at the    *)
(* target of the animation, and no callback of the cancelled animation     *)
(* stays registered.                                                       *)
(***************************************************************************)
C20_CancelKeepsOffset ==
    (phase = "mounted" /\ scrollRafRef # NULL) =>
        /\ LET t == stopActiveScroll(St)
           IN  /\ t.scrollLeft = scrollLeft
               /\ t.rafQueue = {}
               /\ t.scrollRafRef = NULL
        /\ \A pageX \in DownXs :
               LET t == onPointerDown(St, pageX)
               IN  /\ t.scrollLeft = scrollLeft
                   /\ t.rafQueue = {}
                   /\ t.dragRef.scrollLeft = scrollLeft
        /\ \A k \in 0 .. MaxItems :
               LET t == smoothScrollTo(St, N(k * 160), N(600), "easeOutCubic")
               IN  /\ t.scrollLeft = scrollLeft
                   /\ Cardinality(t.rafQueue) = 1
                   /\ \A f \in t.rafQueue : /\ f.start = scrollLeft
                                            /\ f.startTime = now
                                            /\ f.supersedes

\* a pointer-down cancelled the animation from 160 towards 320 after its
\* frame at 400 of 600: scrollLeft stays at 160 + 160 * 26/27
C20_Witness ==
    /\ ev.type = "pointerdown"
    /\ Ops(ev.trace, "cancelAnimationFrame") # {}
    /\ rafQueue = {}
    /\ scrollLeft = <<8480, 27>>
    /\ Lt(N(160), scrollLeft) /\ Lt(scrollLeft, N(320))

(***************************************************************************)
(* C21  Superseding animation starts from the live offset: when            *)
(* smoothScrollTo is called while another animation is in flight, the new  *)
(* animation starts from scrollLeft at the moment of the call, the value   *)
(* the old animation wrote last, not from the old start or target.         *)
(***************************************************************************)
C21_SupersedingStart ==
    (/\ ev.type \in {"next", "prev", "keydown", "pointerup", "pointercancel"}
     /\ Ops(ev.trace, "cancelAnimationFrame") # {}
     /\ Ops(ev.trace, "smoothScrollTo") # {}) =>
        /\ Cardinality(rafQueue) = 1
        /\ \A f \in rafQueue :
               /\ f.supersedes
               /\ f.start = scrollLeft
               /\ \A i \in Ops(ev.trace, "smoothScrollTo") :
                      Plus(f.start, f.change) = ev.trace[i].x

\* Next was pressed during a drag and the drag released after the frame at
\* 400 of the animation 0 -> 160: the settle animation starts from
\* 160 * 26/27, neither 0 nor 160
C21_Witness ==
    /\ Released
    /\ Ops(ev.trace, "cancelAnimationFrame") # {}
    /\ scrollLeft = <<4160, 27>>
    /\ \E f \in rafQueue : /\ f.supersedes
                           /\ f.start = <<4160, 27>>
                           /\ Plus(f.start, f.change) = N(160)

(***************************************************************************)
(* C22  1:1 drag mapping, as stated: after every pointer-move of an active *)
(* drag session scrollLeft = dragRef.scrollLeft - (pageX - startX).        *)
(* Refuted at the ends of the scroll range: the viewport holds the         *)
(* written value clamped to what it can scroll to.                         *)
(***************************************************************************)
C22_DragMapping ==
    ev.type = "pointermove" =>
        scrollLeft = Minus(dragRef.scrollLeft, N(ev.x - dragRef.startX))

(***************************************************************************)
(* C22 amended: after every pointer-move of an active drag session         *)
(* scrollLeft is dragRef.scrollLeft - (pageX - startX) clamped to the      *)
(* scroll range of the viewport, a function of the latest pointer          *)
(* position only.                                                          *)
(***************************************************************************)
C22_DragMappingClamped ==
    ev.type = "pointermove" =>
        LET wanted == Minus(dragRef.scrollLeft, N(ev.x - dragRef.startX))
            highest == maxScrollLeft(itemCount)
        IN  /\ dragRef.isDown
            /\ scrollLeft = IF Lt(wanted, N(0)) THEN N(0)
                            ELSE IF Lt(highest, wanted) THEN highest
                            ELSE wanted

\* a session that began at scrollLeft 160 moved the pointer by 20: 140
C22_Witness ==
    /\ ev.type = "pointermove"
    /\ dragRef.scrollLeft = N(160)
    /\ ev.x - dragRef.startX = 20
    /\ scrollLeft = N(140)

(***************************************************************************)
(* C23  Threshold flag is sticky: within a gesture hasMoved becomes true   *)
(* on the first pointer-move with |pageX - startX| > 10 (exactly 10 does   *)
(* not set it) and stays true until the next pointer-down, also when the   *)
(* pointer comes back to within 10 of startX before the release.           *)
(***************************************************************************)
C23_StickyThreshold ==
    /\ gestures > 0 =>
           /\ peakDx > 10 => dragRef.hasMoved = "true"
           /\ peakDx <= 10 => dragRef.hasMoved = "false"
    /\ (phase = "mounted" /\ dragRef.isDown /\ dragRef.hasMoved = "true") =>
           \A pageX \in MoveXs :
               onPointerMove(St, pageX).dragRef.hasMoved = "true"

\* the pointer went 20 away and is back where it went down: still moved
C23_Witness ==
    /\ ev.type = "pointermove"
    /\ dragRef.isDown
    /\ ev.x = dragRef.startX
    /\ peakDx = 20
    /\ dragRef.hasMoved = "true"

(***************************************************************************)
(* C24  Velocity sampling: a pointer-move of an active session with        *)
(* now - lastT > 10 sets velocity = (pageX - lastX) / (now - lastT) and    *)
(* moves the anchor (lastX, lastT) to (pageX, now); otherwise velocity,    *)
(* lastX and lastT stay as they are.                                       *)
(***************************************************************************)
C24_VelocitySampling ==
    (phase = "mounted" /\ dragRef.isDown) =>
        \A pageX \in MoveXs :
            LET t == onPointerMove(St, pageX).dragRef
                age == now - dragRef.lastT
            IN  /\ age > 10 =>
                       /\ Times(t.velocity, N(age)) = N(pageX - dragRef.lastX)
                       /\ t.lastX = pageX
                       /\ t.lastT = now
                /\ age <= 10 =>
                       /\ t.velocity = dragRef.velocity
                       /\ t.lastX = dragRef.lastX
                       /\ t.lastT = dragRef.lastT

\* a move by 20, 20 after the pointer went down: velocity 1, anchor moved
C24_Witness ==
    /\ ev.type = "pointermove"
    /\ dragRef.isDown
    /\ dragRef.velocity = N(1)
    /\ dragRef.lastX = ev.x
    /\ dragRef.lastX = dragRef.startX + 20
    /\ dragRef.lastT = now

(***************************************************************************)
(* C25  Snap without momentum: the release of a drag that moved beyond     *)
(* the threshold with |velocity| <= 0.1 starts an ease-out-cubic           *)
(* animation of duration 500 towards                                       *)
(* round(scrollLeft / scrollStep) * scrollStep.                            *)
(***************************************************************************)
C25_SnapWithoutMomentum ==
    (/\ Released
     /\ peakDx > 10
     /\ ~Lt(Q(1, 10), MathAbs(dragRef.velocity))) =>
        LET nearest == N(MathRound(Over(scrollLeft, N(160))) * 160)
        IN  /\ ev.trace = <<Did("smoothScrollTo", UNDEFINED, nearest, N(500),
                                "easeOutCubic")>>
            /\ Cardinality(rafQueue) = 1
            /\ Animations(St, scrollLeft, nearest, 500, "easeOutCubic", now) = rafQueue

\* released at scrollLeft 120 with velocity exactly 0.1: snap towards 160
C25_Witness ==
    /\ Released
    /\ peakDx > 10
    /\ dragRef.velocity = <<1, 10>>
    /\ scrollLeft = N(120)
    /\ Animations(St, N(120), N(160), 500, "easeOutCubic", now) # {}

(***************************************************************************)
(* C26  Momentum duration bounds: every momentum release animates for      *)
(* min(1500, max(800, 1.5 * |target - scrollLeft|)), which lies in         *)
(* [800, 1500] and does not decrease when the distance grows.              *)
(***************************************************************************)
C26_MomentumDuration ==
    /\ (/\ Released
        /\ peakDx > 10
        /\ Lt(Q(1, 10), MathAbs(dragRef.velocity))) =>
           /\ Cardinality(rafQueue) = 1
           /\ \A f \in rafQueue :
                  LET distance == MathAbs(f.change)
                      scaled == Over(Times(distance, N(3)), N(2))
                  IN  /\ f.start = scrollLeft
                      /\ f.duration = IF Lt(scaled, N(800)) THEN N(800)
                                      ELSE IF Lt(N(1500), scaled) THEN N(1500)
                                      ELSE scaled
                      /\ Le(N(800), f.duration) /\ Le(f.duration, N(1500))
    /\ (phase = "mounted" /\ dragRef.isDown /\ dragRef.hasMoved = "true") =>
           \A v1, v2 \in {v \in Velocities : Lt(Q(1, 10), MathAbs(v))} :
               LET t1 == settle([St EXCEPT !.dragRef.velocity = v1])
                   t2 == settle([St EXCEPT !.dragRef.velocity = v2])
               IN  \A f1 \in t1.rafQueue : \A f2 \in t2.rafQueue :
                       Le(MathAbs(f1.change), MathAbs(f2.change)) =>
                           Le(f1.duration, f2.duration)

\* released at scrollLeft 0 with velocity -3: target 640, duration 960
C26_Witness ==
    /\ Released
    /\ peakDx > 10
    /\ dragRef.velocity = N(-3)
    /\ \E f \in rafQueue : /\ f.start = N(0)
                           /\ f.change = N(640)
                           /\ f.duration = N(960)

(***************************************************************************)
(* C27  Frames never notify: a frame callback changes only scrollLeft and  *)
(* the animation handle, and onItemClick is called only while a mount, a   *)
(* button press, an arrow key press or a release of the pointer is         *)
(* handled.                                                                *)
(* Refuted: the frame callback itself never notifies, but the effect of    *)
(* lines 77-103 runs again on a re-render and calls onItemClick there.     *)
(***************************************************************************)
C27_FramesNeverNotify ==
    /\ ev.type = "frame" => Ops(ev.trace, "onItemClick") = {}
    /\ \A f \in rafQueue :
           LET t == animateScroll(St, f, now)
           IN  /\ t.dragRef = dragRef
               /\ t.callCount = callCount
               /\ t.lastItem = lastItem
               /\ t.containerRef = containerRef
    /\ Ops(ev.trace, "onItemClick") # {} =>
           ev.type \in {"mount", "next", "prev", "keydown", "pointerup",
                        "pointercancel"}

(***************************************************************************)
(* C28  Gesture end returns to Idle: a pointer-up or pointer-cancel        *)
(* received while a drag session is active leaves dragRef.isDown false,    *)
(* whether the gesture was a tap, a snap or a momentum release.            *)
(***************************************************************************)
C28_GestureEndIdle ==
    /\ Released => ~dragRef.isDown
    /\ (phase = "mounted" /\ dragRef.isDown) =>
           \A hit \in Hits(itemCount) : ~onPointerUp(St, hit).dragRef.isDown

\* a tap released over no card: nothing else happens, the session still ends
C28_Witness ==
    /\ Released
    /\ gestures = 1
    /\ peakDx = 0
    /\ ev.hit = NoCard
    /\ ev.trace = <<>>
    /\ ~dragRef.isDown

(***************************************************************************)
(* C29  Mount notification is not repeated: a re-render of the mounted     *)
(* widget calls onItemClick no further time and does not write             *)
(* scrollLeft.                                                             *)
(* Refuted: the dependencies of the effect (line 103) include items and    *)
(* onItemClick, so a re-render with a new identity of either runs lines    *)
(* 92-102 again.                                                           *)
(***************************************************************************)
C29_MountNotRepeated ==
    ev.type = "rerender" =>
        /\ Ops(ev.trace, "onItemClick") = {}
        /\ Ops(ev.trace, "scrollLeft=") = {}

(***************************************************************************)
(* C30  Last notification matches the resting card: whenever no drag is    *)
(* active and no animation is in flight, and there are items, the item     *)
(* last passed to onItemClick is items[getCurrentIndex()].                 *)
(* Refuted: the release of a drag settles on another card without calling  *)
(* onItemClick (C2).                                                       *)
(***************************************************************************)
C30_LastNotificationAtRest ==
    (Settled /\ itemCount > 0) => lastItem = ItemAt(itemCount, getCurrentIndex(St))

(***************************************************************************)
(* C31  Events outside a session are ignored: a pointer-move, pointer-up   *)
(* or pointer-cancel while dragRef.isDown is false changes nothing:        *)
(* scrollLeft, dragRef, the animation in flight and the number of          *)
(* onItemClick calls stay as they are, and nothing is done.                *)
(***************************************************************************)
C31_OutsideSessionIgnored ==
    (phase = "mounted" /\ ~dragRef.isDown) =>
        /\ \A pageX \in MoveXs : onPointerMove(St, pageX) = St
        /\ \A hit \in Hits(itemCount) : onPointerUp(St, hit) = St

\* after a tap selected card 1 and while its animation runs: a further
\* pointer-up over card 0 and a pointer-move are ignored
C31_Witness ==
    /\ Released
    /\ ~dragRef.isDown
    /\ dragRef.hasMoved = "false"
    /\ rafQueue # {}
    /\ lastItem = [defined |-> TRUE, index |-> 1]
    /\ onPointerUp(St, CardAt(0)) = St
    /\ \A pageX \in MoveXs : onPointerMove(St, pageX) = St

\* t is the state after a button press that selected index j from the live
\* offset: one animation from scrollLeft towards j * scrollStep, one
\* notification with items[j]
SelectsLive(t, j) ==
    /\ Cardinality(Ops(t.trace, "smoothScrollTo")) = 1
    /\ \A i \in Ops(t.trace, "smoothScrollTo") :
           /\ t.trace[i].x = N(j * 160)
           /\ t.trace[i].duration = N(600)
    /\ Cardinality(Ops(t.trace, "onItemClick")) = 1
    /\ \A i \in Ops(t.trace, "onItemClick") : t.trace[i].item = ItemAt(itemCount, j)
    /\ t.callCount = callCount + 1
    /\ t.scrollLeft = scrollLeft
    /\ Cardinality(t.rafQueue) = 1
    /\ Animations(t, scrollLeft, N(j * 160), 600, "easeOutCubic", now) = t.rafQueue

(***************************************************************************)
(* C32  Next/Previous resolve the index from the live offset: pressed      *)
(* while an animation is in flight, Next takes the current index           *)
(* round(scrollLeft / scrollStep) of the live offset and selects the index *)
(* one above it, Previous the index one below it (nothing at the edge,     *)
(* C6); so a second Next before scrollLeft passed half a step selects the  *)
(* item of the first press again.                                          *)
(* Refuted: the index of the live offset is not clamped (C14), and from an *)
(* index past the last card Next selects items.length - 1, below the       *)
(* current index.  For a current index within the list the claim holds.    *)
(***************************************************************************)
C32_LiveIndex ==
    (phase = "mounted" /\ rafQueue # {} /\ scrollRafRef # NULL /\ itemCount > 0) =>
        LET currentIndex == MathRound(Over(scrollLeft, N(160)))
        IN  /\ currentIndex # itemCount - 1 =>
                   SelectsLive(scrollNext(St), currentIndex + 1)
            /\ currentIndex # 0 =>
                   SelectsLive(scrollPrev(St), currentIndex - 1)

\* the animations of a frame queue without the time they were started at
Undated(queue) == {[f EXCEPT !.startTime = 0] : f \in queue}

(***************************************************************************)
(* C33  Release uses the last sampled velocity: pointer-up and             *)
(* pointer-cancel leave dragRef.velocity as the last pointer-move sample   *)
(* set it (0 when the gesture took no sample); the choice between          *)
(* momentum and snap and the target are computed from that value and the   *)
(* offset alone, whatever time passed between the sample and the release.  *)
(***************************************************************************)
C33_LastSampledVelocity ==
    /\ (phase = "mounted" /\ dragRef.isDown) =>
           \A hit \in Hits(itemCount) :
               LET t == onPointerUp(St, hit)
                   v == dragRef.velocity
                   momentum == Lt(Q(1, 10), MathAbs(v))
                   projected == IF momentum
                                THEN Minus(scrollLeft, Times(v, N(200)))
                                ELSE scrollLeft
                   target == N(MathRound(Over(projected, N(160))) * 160)
               IN  /\ t.dragRef.velocity = v
                   /\ dragRef.hasMoved = "true" =>
                          /\ Cardinality(t.rafQueue) = 1
                          /\ \A f \in t.rafQueue :
                                 /\ Plus(f.start, f.change) = target
                                 /\ momentum <=> Le(N(800), f.duration)
                                 /\ ~momentum <=> f.duration = N(500)
                          /\ \A age \in SampleAges :
                                 LET late == [St EXCEPT !.now = dragRef.lastT + age]
                                     u == onPointerUp(late, hit)
                                 IN  /\ u.dragRef.velocity = v
                                     /\ Undated(u.rafQueue) = Undated(t.rafQueue)
    /\ (phase = "mounted" /\ ~dragRef.isDown) =>
           \A pageX \in DownXs : \A x \in MoveXs :
               LET down == onPointerDown(St, pageX)
                   moved == onPointerMove(down, x)
                   up == onPointerUp(moved, NoCard)
               IN  /\ up.dragRef.velocity = N(0)
                   /\ AbsInt(x - pageX) > 10 =>
                          \A f \in up.rafQueue : f.duration = N(500)

\* a drag sampled at velocity 1 and held for 20 ms more: the release still
\* takes the momentum branch with velocity 1
C33_Witness ==
    /\ phase = "mounted"
    /\ dragRef.isDown
    /\ dragRef.hasMoved = "true"
    /\ dragRef.velocity = N(1)
    /\ now - dragRef.lastT = 20
    /\ LET t == onPointerUp(St, NoCard)
       IN  /\ t.dragRef.velocity = N(1)
           /\ \E f \in t.rafQueue : Le(N(800), f.duration)

====
